---- MODULE Spec2Model ----
(***************************************************************************)
(* The per-frame lighting state of the WEBGL renderer: ambientLight,       *)
(* directionalLight and pointLight write indexed uniforms of the shared    *)
(* lighting shader program and keep one counter per light type.            *)
(***************************************************************************)
EXTENDS Integers, Sequences, FiniteSets, TLC

\* ------------------------------------------------------------------ bounds
\* Size of the shader's light arrays: a light call is only taken while its
\* type's counter is below it (beyond it the GL behaviour is undefined).
MaxLights == 4
\* Number of operations in one behaviour of Spec.
MaxSteps == 4
\* Number of light calls in one frame of SpecReplay.
MaxFrameCalls == 2
\* Number of loadImage calls in one behaviour of SpecLoad.
MaxLoads == 2

\* ------------------------------------------------------------ JS values
Num(n) == [t |-> "number", v |-> n]
Str(s) == [t |-> "string", s |-> s]
Vec(a, b, c) == [t |-> "object", x |-> Num(a), y |-> Num(b), z |-> Num(c)]
EmptyObject == [t |-> "object"]
Null == [t |-> "null"]
Undefined == [t |-> "undefined"]
NaN == [t |-> "NaN"]

\* arguments[i] / args[i] with a 0-based index: a missing element is undefined.
ArgAt(args, i) == IF i >= 0 /\ i < Len(args) THEN args[i + 1] ELSE Undefined

\* Reading property p of v throws a TypeError exactly when v is null or undefined.
PropThrows(v) == v.t \in {"null", "undefined"}

\* v.p for a v that is neither null nor undefined: a missing property is undefined.
GetProp(v, p) == IF v.t = "object" /\ p \in DOMAIN v THEN v[p] ELSE Undefined

\* typeof v === 'number'
IsNumber(v) == v.t = "number"

\* ------------------------------------------------------- color resolver
\* The channels of a color whose argument shape is not a gray or RGB list of
\* numbers: some value that depends on the arguments only.
UnresolvedColor(cargs) == [k \in 1..4 |-> [t |-> "channel", k |-> k, of |-> cargs]]

\* color(...)._array in the default 0-255 range: gray, gray + alpha, RGB, RGBA.
ResolveColor(cargs) ==
  IF \A k \in 1..Len(cargs) : IsNumber(cargs[k])
  THEN CASE Len(cargs) = 1 -> <<cargs[1], cargs[1], cargs[1], Num(255)>>
         [] Len(cargs) = 2 -> <<cargs[1], cargs[1], cargs[1], cargs[2]>>
         [] Len(cargs) = 3 -> <<cargs[1], cargs[2], cargs[3], Num(255)>>
         [] Len(cargs) = 4 -> <<cargs[1], cargs[2], cargs[3], cargs[4]>>
         [] OTHER -> UnresolvedColor(cargs)
  ELSE UnresolvedColor(cargs)

\* ------------------------------------------------------------ GL context
LightShader == "lightVert|lightTextureFrag"
NoProgram == "none"

IndexedUniforms ==
  {"uAmbientColor", "uDirectionalColor", "uLightingDirection",
   "uPointLightColor", "uPointLightLocation"}
ScalarUniforms ==
  {"uMaterialColor", "uAmbientLightCount", "uDirectionalLightCount", "uPointLightCount"}

\* 'uAmbientColor[' + i + ']' and 'uMaterialColor'
Indexed(base, i) == <<base, i>>
Scalar(base) == <<base>>

UniformNames ==
  {Indexed(b, i) : b \in IndexedUniforms, i \in 0..(MaxLights - 1)}
    \cup {Scalar(b) : b \in ScalarUniforms}

Unset == [t |-> "unset"]

\* A GL float argument: numbers pass, null is 0, anything else is NaN.
GLfloat(v) ==
  IF v.t \in {"number", "channel"} THEN v
  ELSE IF v.t = "null" THEN Num(0) ELSE NaN

Float3(a, b, c) == [t |-> "vec3", f3 |-> <<GLfloat(a), GLfloat(b), GLfloat(c)>>]
Float4(a, b, c, d) ==
  [t |-> "vec4", f4 |-> <<GLfloat(a), GLfloat(b), GLfloat(c), GLfloat(d)>>]
Int1(n) == [t |-> "int", i |-> n]

\* The context an operation runs in: the renderer's counters, the GL state and
\* the GL calls issued so far by the operation.
useProgram(c, p) ==
  [c EXCEPT !.program = p,
            !.trace = Append(@, [call |-> "useProgram", program |-> p])]

setUniform(c, loc, val) ==
  [c EXCEPT !.uniforms[loc] = val,
            !.trace = Append(@, [call |-> "uniform", loc |-> loc, val |-> val])]

uniform3f(c, loc, a, b, d) == setUniform(c, loc, Float3(a, b, d))
uniform4f(c, loc, a, b, d, e) == setUniform(c, loc, Float4(a, b, d, e))
uniform1i(c, loc, n) == setUniform(c, loc, Int1(n))

White == Float4(Num(1), Num(1), Num(1), Num(1))

\* ------------------------------------------------------------ operations
\* Variant: the default material color is not written.
defaultMaterialColor_Skipped(c) == c

\* //in case there's no material color for the geometry
defaultMaterialColor(c) ==
  uniform4f(c, Scalar("uMaterialColor"), Num(1), Num(1), Num(1), Num(1))

\* Variant: the slot index is taken after the increment.
ambientColorLoc_AfterIncrement(c) == Indexed("uAmbientColor", c.ambientLightCount + 1)

\* Variant: the slot index is read back from the uAmbientLightCount uniform.
ambientColorLoc_FromUniform(c) ==
  LET u == c.uniforms[Scalar("uAmbientLightCount")]
  IN Indexed("uAmbientColor", IF u.t = "int" THEN u.i ELSE 0)

\* 'uAmbientColor[' + this._renderer.ambientLightCount + ']'
ambientColorLoc(c) == Indexed("uAmbientColor", c.ambientLightCount)

\* Variant: the program is made active after the color is written.
ambientLight_UseProgramLate(c, args) ==
  LET colors == ResolveColor(args)
      c1 == uniform3f(c, ambientColorLoc(c), colors[1], colors[2], colors[3])
      c2 == useProgram(c1, LightShader)
      c3 == defaultMaterialColor(c2)
      c4 == [c3 EXCEPT !.ambientLightCount = @ + 1]
  IN uniform1i(c4, Scalar("uAmbientLightCount"), c4.ambientLightCount)

ambientLight(c, args) ==
  LET c1 == useProgram(c, LightShader)
      colors == ResolveColor(args)
      c2 == uniform3f(c1, ambientColorLoc(c1), colors[1], colors[2], colors[3])
      c3 == defaultMaterialColor(c2)
      c4 == [c3 EXCEPT !.ambientLightCount = @ + 1]
  IN uniform1i(c4, Scalar("uAmbientLightCount"), c4.ambientLightCount)

\* Variant: numeric x, y, z are read at the fixed positions of the parameters
\* x, y, z of function(v1, v2, v3, a, x, y, z).
directionalLightVector_FixedOffset(args) ==
  LET n == Len(args)
      tail == ArgAt(args, n - 1)
  IN IF IsNumber(tail)
     THEN [threw |-> FALSE, x |-> ArgAt(args, 4), y |-> ArgAt(args, 5), z |-> ArgAt(args, 6)]
     ELSE IF PropThrows(tail)
     THEN [threw |-> TRUE, x |-> Undefined, y |-> Undefined, z |-> Undefined]
     ELSE [threw |-> FALSE,
           x |-> GetProp(tail, "x"), y |-> GetProp(tail, "y"), z |-> GetProp(tail, "z")]

\* _x, _y, _z of directionalLight: the last three arguments when the last one is
\* a number, else the x, y, z properties of the last one; reading them throws
\* when the last argument is null or undefined.
directionalLightVector(args) ==
  LET n == Len(args)
      tail == ArgAt(args, n - 1)
  IN IF IsNumber(tail)
     THEN [threw |-> FALSE,
           x |-> ArgAt(args, n - 3), y |-> ArgAt(args, n - 2), z |-> ArgAt(args, n - 1)]
     ELSE IF PropThrows(tail)
     THEN [threw |-> TRUE, x |-> Undefined, y |-> Undefined, z |-> Undefined]
     ELSE [threw |-> FALSE,
           x |-> GetProp(tail, "x"), y |-> GetProp(tail, "y"), z |-> GetProp(tail, "z")]

\* Variant: the counter is incremented before the vector is resolved.
directionalLight_CountsBeforeVector(c, args) ==
  LET c1 == useProgram(c, LightShader)
      colorLoc == Indexed("uDirectionalColor", c1.directionalLightCount)
      colors == ResolveColor(<<ArgAt(args, 0), ArgAt(args, 1), ArgAt(args, 2)>>)
      c2 == uniform3f(c1, colorLoc, colors[1], colors[2], colors[3])
      c2i == [c2 EXCEPT !.directionalLightCount = @ + 1]
      v == directionalLightVector(args)
  IN IF v.threw
     THEN [c2i EXCEPT !.threw = TRUE]
     ELSE
       LET dirLoc == Indexed("uLightingDirection", c2.directionalLightCount)
           c3 == uniform3f(c2i, dirLoc, v.x, v.y, v.z)
           c4 == defaultMaterialColor(c3)
       IN uniform1i(c4, Scalar("uDirectionalLightCount"), c4.directionalLightCount)

directionalLight(c, args) ==
  LET c1 == useProgram(c, LightShader)
      colorLoc == Indexed("uDirectionalColor", c1.directionalLightCount)
      colors == ResolveColor(<<ArgAt(args, 0), ArgAt(args, 1), ArgAt(args, 2)>>)
      c2 == uniform3f(c1, colorLoc, colors[1], colors[2], colors[3])
      v == directionalLightVector(args)
  IN IF v.threw
     THEN [c2 EXCEPT !.threw = TRUE]
     ELSE
       LET dirLoc == Indexed("uLightingDirection", c2.directionalLightCount)
           c3 == uniform3f(c2, dirLoc, v.x, v.y, v.z)
           c4 == defaultMaterialColor(c3)
           c5 == [c4 EXCEPT !.directionalLightCount = @ + 1]
       IN uniform1i(c5, Scalar("uDirectionalLightCount"), c5.directionalLightCount)

\* _x, _y, _z of pointLight, resolved as in directionalLight.
pointLightVector(args) ==
  LET n == Len(args)
      tail == ArgAt(args, n - 1)
  IN IF IsNumber(tail)
     THEN [threw |-> FALSE,
           x |-> ArgAt(args, n - 3), y |-> ArgAt(args, n - 2), z |-> ArgAt(args, n - 1)]
     ELSE IF PropThrows(tail)
     THEN [threw |-> TRUE, x |-> Undefined, y |-> Undefined, z |-> Undefined]
     ELSE [threw |-> FALSE,
           x |-> GetProp(tail, "x"), y |-> GetProp(tail, "y"), z |-> GetProp(tail, "z")]

\* Variant: the counter incremented is the directional one.
pointLight_BumpsDirectional(c, args) ==
  LET c1 == useProgram(c, LightShader)
      colorLoc == Indexed("uPointLightColor", c1.pointLightCount)
      colors == ResolveColor(<<ArgAt(args, 0), ArgAt(args, 1), ArgAt(args, 2)>>)
      c2 == uniform3f(c1, colorLoc, colors[1], colors[2], colors[3])
      v == pointLightVector(args)
  IN IF v.threw
     THEN [c2 EXCEPT !.threw = TRUE]
     ELSE
       LET locLoc == Indexed("uPointLightLocation", c2.pointLightCount)
           c3 == uniform3f(c2, locLoc, v.x, v.y, v.z)
           c4 == defaultMaterialColor(c3)
           c5 == [c4 EXCEPT !.directionalLightCount = @ + 1]
       IN uniform1i(c5, Scalar("uPointLightCount"), c5.pointLightCount)

\* Variant: the location slot is indexed by the directional counter.
pointLight_LocationAtDirectionalIndex(c, args) ==
  LET c1 == useProgram(c, LightShader)
      colorLoc == Indexed("uPointLightColor", c1.pointLightCount)
      colors == ResolveColor(<<ArgAt(args, 0), ArgAt(args, 1), ArgAt(args, 2)>>)
      c2 == uniform3f(c1, colorLoc, colors[1], colors[2], colors[3])
      v == pointLightVector(args)
  IN IF v.threw
     THEN [c2 EXCEPT !.threw = TRUE]
     ELSE
       LET locLoc == Indexed("uPointLightLocation", c2.directionalLightCount)
           c3 == uniform3f(c2, locLoc, v.x, v.y, v.z)
           c4 == defaultMaterialColor(c3)
           c5 == [c4 EXCEPT !.pointLightCount = @ + 1]
       IN uniform1i(c5, Scalar("uPointLightCount"), c5.pointLightCount)

pointLight(c, args) ==
  LET c1 == useProgram(c, LightShader)
      colorLoc == Indexed("uPointLightColor", c1.pointLightCount)
      colors == ResolveColor(<<ArgAt(args, 0), ArgAt(args, 1), ArgAt(args, 2)>>)
      c2 == uniform3f(c1, colorLoc, colors[1], colors[2], colors[3])
      v == pointLightVector(args)
  IN IF v.threw
     THEN [c2 EXCEPT !.threw = TRUE]
     ELSE
       LET locLoc == Indexed("uPointLightLocation", c2.pointLightCount)
           c3 == uniform3f(c2, locLoc, v.x, v.y, v.z)
           c4 == defaultMaterialColor(c3)
           c5 == [c4 EXCEPT !.pointLightCount = @ + 1]
       IN uniform1i(c5, Scalar("uPointLightCount"), c5.pointLightCount)

\* The frame driver's reset of the light state: the three counters go to 0.
resetLights(c) ==
  [c EXCEPT !.ambientLightCount = 0, !.directionalLightCount = 0, !.pointLightCount = 0]

\* A material call: it sets its own material color.
setMaterial(c, col) ==
  uniform4f(c, Scalar("uMaterialColor"), col[1], col[2], col[3], col[4])

\* -------------------------------------------------------- image loading
Fn(name) == [t |-> "function", name |-> name]

\* The image file behind a path: its size and its pixels (one RGBA pixel
\* stands for all of them).
ImageFile(path) ==
  IF path = "a.png"
  THEN [width |-> 2, height |-> 4, pixel |-> <<255, 255, 255, 255>>]
  ELSE [width |-> 4, height |-> 2, pixel |-> <<255, 0, 255, 255>>]

\* A canvas that was never drawn into is transparent black.
BlankPixel == <<0, 0, 0, 0>>

\* new Image(), then img.src = path: the browser starts loading.
newImage(id, path) ==
  [id |-> id, src |-> path, status |-> "loading",
   width |-> 0, height |-> 0, pixel |-> BlankPixel]

\* new p5.Image(1, 1, this)
newP5Image(id) ==
  [id |-> id, width |-> 1, height |-> 1,
   canvas |-> [width |-> 1, height |-> 1, pixel |-> BlankPixel]]

\* loadImage(path, callback) as the n-th call (n from 0): the record of the
\* call (img, pImg, and the callback the onload closure holds) and the value
\* returned, the p5.Image.
loadImage(n, path, callback) ==
  LET img == newImage(2 * n + 1, path)
      pImg == newP5Image(2 * n + 2)
  IN [load |-> [path |-> path, callback |-> callback, img |-> img, pImg |-> pImg],
      returned |-> pImg.id]

\* The browser finished loading l.img: its size and pixels are those of the file.
decoded(l) ==
  LET f == ImageFile(l.img.src)
  IN [l EXCEPT !.img.status = "loaded", !.img.width = f.width,
               !.img.height = f.height, !.img.pixel = f.pixel]

\* Variant: the callback is invoked before pImg is resized and drawn into.
onload_CallbackFirst(l) ==
  LET img == l.img
      pImg1 == [l.pImg EXCEPT !.width = img.width, !.canvas.width = img.width,
                              !.height = img.height, !.canvas.height = img.height]
      pImg2 == [pImg1 EXCEPT !.canvas.pixel = img.pixel]
      l2 == [l EXCEPT !.pImg = pImg2]
  IN IF l.callback.t # "undefined"
     THEN IF l.callback.t = "function"
          THEN [load |-> l2, calls |-> <<[fn |-> l.callback, arg |-> l.pImg]>>,
                threw |-> FALSE]
          ELSE [load |-> l2, calls |-> <<>>, threw |-> TRUE]
     ELSE [load |-> l2, calls |-> <<>>, threw |-> FALSE]

\* img.onload of the call recorded in l: pImg takes the size of img, img is
\* drawn into pImg's canvas, and the callback, unless undefined, is called with
\* pImg (calling a callback that is no function throws).
onload(l) ==
  LET img == l.img
      pImg1 == [l.pImg EXCEPT !.width = img.width, !.canvas.width = img.width,
                              !.height = img.height, !.canvas.height = img.height]
      pImg2 == [pImg1 EXCEPT !.canvas.pixel = img.pixel]
      l2 == [l EXCEPT !.pImg = pImg2]
  IN IF l.callback.t # "undefined"
     THEN IF l.callback.t = "function"
          THEN [load |-> l2, calls |-> <<[fn |-> l.callback, arg |-> pImg2]>>,
                threw |-> FALSE]
          ELSE [load |-> l2, calls |-> <<>>, threw |-> TRUE]
     ELSE [load |-> l2, calls |-> <<>>, threw |-> FALSE]

\* -------------------------------------------------------- image drawing
CORNER == "corner"
CORNERS == "corners"
CENTER == "center"

\* getNormalizedColor(arguments): the RGBA array, 0-255, of a gray, gray and
\* alpha, RGB or RGBA argument list.
getNormalizedColor(args) ==
  [t |-> "array",
   a |-> CASE Len(args) = 1 -> <<args[1], args[1], args[1], 255>>
           [] Len(args) = 2 -> <<args[1], args[1], args[1], args[2]>>
           [] Len(args) = 3 -> <<args[1], args[2], args[3], 255>>
           [] OTHER -> <<args[1], args[2], args[3], args[4]>>]

\* if (v): null and undefined are falsy, an array is truthy whatever it holds.
Truthy(v) == v.t \notin {"null", "undefined"}

tint(ds, args) == [ds EXCEPT !._tint = getNormalizedColor(args)]

\* Variant: the tint is left as it is.
noTint_KeepsTint(ds) == ds

noTint(ds) == [ds EXCEPT !._tint = Null]

\* A new canvas of the size of image.canvas whose pixels are those of
\* image.canvas scaled channel by channel by this._tint / 255 (exact for the
\* pixels of ImageFile, whose channels are 0 or 255).
getTintedImageCanvas(ds, img) ==
  [width |-> img.canvas.width, height |-> img.canvas.height,
   pixel |-> [k \in 1..4 |-> (img.canvas.pixel[k] * ds._tint.a[k]) \div 255]]

\* canvas.modeAdjust: CORNER takes (x, y) as the upper-left corner, CORNERS
\* takes (w, h) as the opposite corner, CENTER takes (x, y) as the center
\* (sizes are even in the inputs used).
modeAdjust(x, y, w, h, mode) ==
  CASE mode = CORNERS -> [x |-> x, y |-> y, w |-> w - x, h |-> h - y]
    [] mode = CENTER -> [x |-> x - (w \div 2), y |-> y - (h \div 2), w |-> w, h |-> h]
    [] OTHER -> [x |-> x, y |-> y, w |-> w, h |-> h]

\* image(img, x, y, width, height): the drawImage call on the sketch's canvas.
image(ds, img, x, y, width, height) ==
  LET w == IF width.t = "undefined" THEN img.width ELSE width.v
      h == IF height.t = "undefined" THEN img.height ELSE height.v
      vals == modeAdjust(x, y, w, h, ds._imageMode)
  IN IF Truthy(ds._tint)
     THEN [source |-> getTintedImageCanvas(ds, img), tinted |-> TRUE,
           x |-> vals.x, y |-> vals.y, w |-> vals.w, h |-> vals.h]
     ELSE [source |-> img.canvas, tinted |-> FALSE,
           x |-> vals.x, y |-> vals.y, w |-> vals.w, h |-> vals.h]

\* Variant: the mode is set whatever m is.
imageMode_SetsAny(ds, m) == [ds EXCEPT !._imageMode = m]

imageMode(ds, m) ==
  IF m = CORNER \/ m = CORNERS \/ m = CENTER
  THEN [ds EXCEPT !._imageMode = m]
  ELSE ds

\* ------------------------------------------------------------------ state
VARIABLES
  ambientLightCount,      \* this._renderer.ambientLightCount
  directionalLightCount,  \* this._renderer.directionalLightCount
  pointLightCount,        \* this._renderer.pointLightCount
  currentProgram,         \* the program made active by gl.useProgram
  uniforms,               \* the uniform values of the lighting program
  glTrace,                \* the GL calls issued by the latest operation, in order
  last,                   \* the latest operation, its arguments, whether it threw,
                          \* and uMaterialColor as it was before it
  registered,             \* per light type: calls completed since the reset
  written,                \* uniform names written since the reset
  ambientCalls,           \* arguments of the ambientLight calls since the reset
  failedAt,               \* per light type: the slot index of its latest call if
                          \* that call threw (since the reset), else -1
  steps,                  \* operations so far
  phase,                  \* SpecReplay: "record" (first frame) or "replay"
  frameCalls,             \* SpecReplay: light calls of the current frame
  frameWrites,            \* SpecReplay: uniform writes of the current frame, per call
  prevCalls,              \* SpecReplay: light calls of the previous frame
  prevWrites,             \* SpecReplay: uniform writes of the previous frame, per call
  loads,                  \* SpecLoad: the loadImage calls so far, each with its
                          \* callback, its DOM image and its p5.Image
  invoked,                \* SpecLoad: the callback invocations, in order
  _tint,                  \* SpecDraw: this._tint
  _imageMode,             \* SpecDraw: this._imageMode
  lastDraw,               \* SpecDraw: the latest drawImage on the sketch's canvas
  lastTint,               \* SpecDraw: the latest tint or noTint call, and which of
                          \* the two the one before it was
  imgLast                 \* SpecDraw: the latest operation and its argument

progVars == <<ambientLightCount, directionalLightCount, pointLightCount,
              currentProgram, uniforms, glTrace>>
ghostVars == <<last, registered, written, ambientCalls, failedAt>>
replayVars == <<phase, frameCalls, frameWrites, prevCalls, prevWrites>>
loadVars == <<loads, invoked>>
drawVars == <<_tint, _imageMode, lastDraw, lastTint, imgLast>>
lightVars == <<progVars, ghostVars, steps, replayVars>>
vars == <<lightVars, loadVars, drawVars>>

LightOps == {"ambientLight", "directionalLight", "pointLight"}

\* ----------------------------------------------------------------- inputs
RGB == <<Num(250), Num(200), Num(100)>>
Gray == <<Num(150)>>
XYZ == <<Num(1), Num(2), Num(3)>>

AmbientArgs == {Gray, RGB}

GeometryLightArgs ==
  {RGB \o XYZ, Gray \o XYZ,
   RGB \o <<Vec(1, 2, 3)>>, Gray \o <<Vec(1, 2, 3)>>,
   RGB \o <<Str("not-a-vector")>>, RGB \o <<EmptyObject>>,
   RGB \o <<Null>>, RGB \o <<Undefined>>}

ArgsOf(op) == IF op = "ambientLight" THEN AmbientArgs ELSE GeometryLightArgs

MaterialColors == {<<Num(200), Num(100), Num(50), Num(255)>>}

\* ---------------------------------------------------------------- actions
Cur ==
  [ambientLightCount |-> ambientLightCount,
   directionalLightCount |-> directionalLightCount,
   pointLightCount |-> pointLightCount,
   program |-> currentProgram,
   uniforms |-> uniforms,
   trace |-> <<>>,
   threw |-> FALSE]

Apply(r) ==
  /\ ambientLightCount' = r.ambientLightCount
  /\ directionalLightCount' = r.directionalLightCount
  /\ pointLightCount' = r.pointLightCount
  /\ currentProgram' = r.program
  /\ uniforms' = r.uniforms
  /\ glTrace' = r.trace

Counter(op) ==
  CASE op = "ambientLight" -> ambientLightCount
    [] op = "directionalLight" -> directionalLightCount
    [] op = "pointLight" -> pointLightCount

Run(op, args) ==
  CASE op = "ambientLight" -> ambientLight(Cur, args)
    [] op = "directionalLight" -> directionalLight(Cur, args)
    [] op = "pointLight" -> pointLight(Cur, args)

\* The uniform writes among the GL calls of a trace, in order.
UniformWrites(trace) == SelectSeq(trace, LAMBDA e : e.call = "uniform")
WrittenNames(trace) == {trace[k].loc : k \in {j \in 1..Len(trace) : trace[j].call = "uniform"}}

LightCall(op, args) ==
  /\ Counter(op) < MaxLights
  /\ LET r == Run(op, args)
     IN /\ Apply(r)
        /\ last' = [op |-> op, args |-> args, threw |-> r.threw,
                    matBefore |-> uniforms[Scalar("uMaterialColor")],
                    afterFail |-> failedAt[op]]
        /\ failedAt' = [failedAt EXCEPT ![op] =
                          IF r.threw
                          THEN (CHOOSE loc \in WrittenNames(r.trace) : Len(loc) = 2)[2]
                          ELSE -1]
        /\ registered' = IF r.threw THEN registered ELSE [registered EXCEPT ![op] = @ + 1]
        /\ written' = written \cup WrittenNames(r.trace)
        /\ ambientCalls' = IF op = "ambientLight" /\ ~r.threw
                           THEN Append(ambientCalls, args) ELSE ambientCalls
  /\ UNCHANGED <<loadVars, drawVars>>

Reset ==
  /\ Apply(resetLights(Cur))
  /\ last' = [op |-> "reset", args |-> <<>>, threw |-> FALSE,
              matBefore |-> uniforms[Scalar("uMaterialColor")], afterFail |-> -1]
  /\ failedAt' = [o \in LightOps |-> -1]
  /\ registered' = [o \in LightOps |-> 0]
  /\ written' = {}
  /\ ambientCalls' = <<>>
  /\ UNCHANGED <<loadVars, drawVars>>

AmbientLight ==
  /\ steps < MaxSteps
  /\ \E args \in AmbientArgs : LightCall("ambientLight", args)
  /\ steps' = steps + 1
  /\ UNCHANGED replayVars

DirectionalLight ==
  /\ steps < MaxSteps
  /\ \E args \in GeometryLightArgs : LightCall("directionalLight", args)
  /\ steps' = steps + 1
  /\ UNCHANGED replayVars

PointLight ==
  /\ steps < MaxSteps
  /\ \E args \in GeometryLightArgs : LightCall("pointLight", args)
  /\ steps' = steps + 1
  /\ UNCHANGED replayVars

ResetLights ==
  /\ steps < MaxSteps
  /\ Reset
  /\ steps' = steps + 1
  /\ UNCHANGED replayVars

Material ==
  /\ steps < MaxSteps
  /\ \E col \in MaterialColors :
       /\ Apply(setMaterial(Cur, col))
       /\ last' = [op |-> "material", args |-> col, threw |-> FALSE,
                  matBefore |-> uniforms[Scalar("uMaterialColor")], afterFail |-> -1]
  /\ written' = written \cup {Scalar("uMaterialColor")}
  /\ steps' = steps + 1
  /\ UNCHANGED <<registered, ambientCalls, failedAt, replayVars, loadVars, drawVars>>

Init ==
  /\ ambientLightCount = 0
  /\ directionalLightCount = 0
  /\ pointLightCount = 0
  /\ currentProgram = NoProgram
  /\ uniforms = [n \in UniformNames |-> Unset]
  /\ glTrace = <<>>
  /\ last = [op |-> "init", args |-> <<>>, threw |-> FALSE, matBefore |-> Unset,
             afterFail |-> -1]
  /\ failedAt = [o \in LightOps |-> -1]
  /\ registered = [o \in LightOps |-> 0]
  /\ written = {}
  /\ ambientCalls = <<>>
  /\ steps = 0
  /\ phase = "record"
  /\ frameCalls = <<>>
  /\ frameWrites = <<>>
  /\ prevCalls = <<>>
  /\ prevWrites = <<>>
  /\ loads = <<>>
  /\ invoked = <<>>
  /\ _tint = Null
  /\ _imageMode = CORNER
  /\ lastDraw = [drawn |-> FALSE]
  /\ lastTint = [op |-> "none", args |-> <<>>, prev |-> "none"]
  /\ imgLast = [op |-> "init", m |-> ""]

Next == AmbientLight \/ DirectionalLight \/ PointLight \/ ResetLights \/ Material

Spec == Init /\ [][Next]_vars

\* ------------------------------------------- two frames, the second a replay
RecordCall ==
  /\ phase = "record"
  /\ Len(frameCalls) < MaxFrameCalls
  /\ \E op \in LightOps : \E args \in ArgsOf(op) :
       /\ LightCall(op, args)
       /\ frameCalls' = Append(frameCalls, [op |-> op, args |-> args])
  /\ frameWrites' = Append(frameWrites, UniformWrites(glTrace'))
  /\ steps' = steps + 1
  /\ UNCHANGED <<phase, prevCalls, prevWrites>>

FrameReset ==
  /\ phase = "record"
  /\ Reset
  /\ phase' = "replay"
  /\ prevCalls' = frameCalls
  /\ prevWrites' = frameWrites
  /\ frameCalls' = <<>>
  /\ frameWrites' = <<>>
  /\ steps' = steps + 1

ReplayCall ==
  /\ phase = "replay"
  /\ Len(frameCalls) < Len(prevCalls)
  /\ LET c == prevCalls[Len(frameCalls) + 1]
     IN /\ LightCall(c.op, c.args)
        /\ frameCalls' = Append(frameCalls, c)
  /\ frameWrites' = Append(frameWrites, UniformWrites(glTrace'))
  /\ steps' = steps + 1
  /\ UNCHANGED <<phase, prevCalls, prevWrites>>

NextReplay == RecordCall \/ FrameReset \/ ReplayCall

SpecReplay == Init /\ [][NextReplay]_vars

\* --------------------------------------------------------- loading images
Paths == {"a.png", "b.png"}
Callbacks == {Undefined, Null, Fn("f"), Fn("g")}

LoadImage ==
  /\ Len(loads) < MaxLoads
  /\ \E path \in Paths, callback \in Callbacks :
       LET r == loadImage(Len(loads), path, callback)
       IN loads' = Append(loads, [path |-> r.load.path, callback |-> r.load.callback,
                                  img |-> r.load.img, pImg |-> r.load.pImg,
                                  returned |-> r.returned, threw |-> FALSE])
  /\ UNCHANGED <<invoked, lightVars, drawVars>>

\* The browser loaded the image of call i and fires its load event.
ImageLoaded ==
  /\ \E i \in 1..Len(loads) :
       /\ loads[i].img.status = "loading"
       /\ LET r == onload(decoded(loads[i]))
          IN /\ loads' = [loads EXCEPT ![i] = [r.load EXCEPT !.threw = r.threw]]
             /\ invoked' = invoked \o [k \in 1..Len(r.calls) |->
                                        [load |-> i, fn |-> r.calls[k].fn,
                                         arg |-> r.calls[k].arg]]
  /\ UNCHANGED <<lightVars, drawVars>>

\* The browser could not load the image of call i: no handler is set for that.
ImageFailed ==
  /\ \E i \in 1..Len(loads) :
       /\ loads[i].img.status = "loading"
       /\ loads' = [loads EXCEPT ![i].img.status = "failed"]
  /\ UNCHANGED <<invoked, lightVars, drawVars>>

NextLoad == LoadImage \/ ImageLoaded \/ ImageFailed

SpecLoad == Init /\ [][NextLoad]_vars

\* ---------------------------------------------------------- drawing images
\* The p5.Image of a loadImage call whose image has loaded.
LoadedImage(n, path) == onload(decoded(loadImage(n, path, Undefined).load)).load.pImg

SampleImages == {LoadedImage(0, "a.png"), LoadedImage(1, "b.png")}
TintArgs == {<<255, 128>>, <<0, 0>>, <<200, 100, 50>>}
SizeArgs == {<<Undefined, Undefined>>, <<Num(6), Num(8)>>}
ModeArgs == {CORNER, CORNERS, CENTER, "radius", "CORNER", "undefined"}

DrawState == [_tint |-> _tint, _imageMode |-> _imageMode]

Tint ==
  /\ \E args \in TintArgs :
       /\ _tint' = tint(DrawState, args)._tint
       /\ lastTint' = [op |-> "tint", args |-> args, prev |-> lastTint.op]
  /\ imgLast' = [op |-> "tint", m |-> ""]
  /\ UNCHANGED <<_imageMode, lastDraw, lightVars, loadVars>>

NoTint ==
  /\ _tint' = noTint(DrawState)._tint
  /\ lastTint' = [op |-> "noTint", args |-> <<>>, prev |-> lastTint.op]
  /\ imgLast' = [op |-> "noTint", m |-> ""]
  /\ UNCHANGED <<_imageMode, lastDraw, lightVars, loadVars>>

DrawImage ==
  /\ \E img \in SampleImages, size \in SizeArgs :
       LET d == image(DrawState, img, 10, 20, size[1], size[2])
       IN lastDraw' = [drawn |-> TRUE, img |-> img, tintCall |-> lastTint,
                       source |-> d.source, tinted |-> d.tinted,
                       x |-> d.x, y |-> d.y, w |-> d.w, h |-> d.h]
  /\ imgLast' = [op |-> "image", m |-> ""]
  /\ UNCHANGED <<_tint, _imageMode, lastTint, lightVars, loadVars>>

ImageMode ==
  /\ \E m \in ModeArgs :
       /\ _imageMode' = imageMode(DrawState, m)._imageMode
       /\ imgLast' = [op |-> "imageMode", m |-> m]
  /\ UNCHANGED <<_tint, lastDraw, lastTint, lightVars, loadVars>>

NextDraw == Tint \/ NoTint \/ DrawImage \/ ImageMode

SpecDraw == Init /\ [][NextDraw]_vars

\* ----------------------------------------------------------------- claims
GeometryOps == {"directionalLight", "pointLight"}

Counters ==
  [ambientLight |-> ambientLightCount,
   directionalLight |-> directionalLightCount,
   pointLight |-> pointLightCount]

ColorArray(op) ==
  CASE op = "ambientLight" -> "uAmbientColor"
    [] op = "directionalLight" -> "uDirectionalColor"
    [] op = "pointLight" -> "uPointLightColor"

GeometryArray(op) ==
  IF op = "directionalLight" THEN "uLightingDirection" ELSE "uPointLightLocation"

ArraysOf(op) ==
  IF op = "ambientLight" THEN {ColorArray(op)} ELSE {ColorArray(op), GeometryArray(op)}

CountUniform(op) ==
  CASE op = "ambientLight" -> "uAmbientLightCount"
    [] op = "directionalLight" -> "uDirectionalLightCount"
    [] op = "pointLight" -> "uPointLightCount"

Indices == 0..(MaxLights - 1)

\* The RGB uniform value of the color resolved from cargs.
ColorOf(cargs) ==
  LET col == ResolveColor(cargs) IN Float3(col[1], col[2], col[3])

LastArg(args) == ArgAt(args, Len(args) - 1)
IsVectorLike(v) == v.t = "object" /\ {"x", "y", "z"} \subseteq DOMAIN v

\* The step is an operation of the program (not a stuttering step).
Stepped == steps' # steps

\* C1: after N ambientLight calls in a frame that started with the ambient
\* counter at 0, uAmbientLightCount is N and uAmbientColor[i], i < N, holds the
\* RGB color of the (i+1)-th call.
C1_AmbientSlots ==
  ambientCalls # <<>> =>
    /\ uniforms[Scalar("uAmbientLightCount")] = Int1(Len(ambientCalls))
    /\ \A i \in 0..(Len(ambientCalls) - 1) :
         uniforms[Indexed("uAmbientColor", i)] = ColorOf(ambientCalls[i + 1])

C1_Witness ==
  /\ Len(ambientCalls) = 3
  /\ ambientCalls[1] # ambientCalls[2]
  /\ ambientCalls[2] # ambientCalls[3]

\* C2: a directionalLight or pointLight call whose last argument is neither a
\* number nor a value with x, y and z fields throws.
C2_BadGeometryThrows ==
  (/\ last.op \in GeometryOps
   /\ ~IsNumber(LastArg(last.args))
   /\ ~IsVectorLike(LastArg(last.args))) => last.threw

\* C3: a directionalLight or pointLight call that throws leaves every uniform
\* as it was before the call.
C3_FailedCallWritesNothing ==
  [][(Stepped /\ last'.op \in GeometryOps /\ last'.threw) => uniforms' = uniforms]_vars

\* C4: after directionalLight or pointLight with a 1- or 3-argument color
\* followed by three numbers, the type's newest color slot holds the color
\* resolved from the color arguments alone and its geometry slot holds the last
\* three arguments as x, y, z.
C4_ColorThenScalars ==
  (/\ last.op \in GeometryOps
   /\ Len(last.args) \in {4, 6}
   /\ \A k \in 1..Len(last.args) : IsNumber(last.args[k]))
  => /\ ~last.threw
     /\ LET n == Len(last.args)
            i == Counters[last.op] - 1
        IN /\ uniforms[Indexed(ColorArray(last.op), i)]
                = ColorOf(SubSeq(last.args, 1, n - 3))
           /\ uniforms[Indexed(GeometryArray(last.op), i)]
                = Float3(last.args[n - 2], last.args[n - 1], last.args[n])

EndsInThreeNumbers(args) ==
  /\ Len(args) >= 3
  /\ \A k \in (Len(args) - 2)..Len(args) : IsNumber(args[k])

\* The call with the same color arguments and one vector-like value in place
\* of the three trailing numbers.
VectorForm(args) ==
  LET n == Len(args)
  IN SubSeq(args, 1, n - 3)
       \o <<[t |-> "object", x |-> args[n - 2], y |-> args[n - 1], z |-> args[n]]>>

GeometrySlots(u, op) == [i \in Indices |-> u[Indexed(GeometryArray(op), i)]]

\* C5: a directionalLight or pointLight call ending in three numbers x, y, z
\* leaves the type's geometry slots as the call with the same color arguments
\* and one vector-like value with fields x, y, z would from the same state.
C5_ScalarsLikeVector ==
  [][(Stepped /\ last'.op \in GeometryOps /\ EndsInThreeNumbers(last'.args)) =>
       LET alt == Run(last'.op, VectorForm(last'.args))
       IN /\ ~last'.threw
          /\ ~alt.threw
          /\ GeometrySlots(uniforms', last'.op) = GeometrySlots(alt.uniforms, last'.op)]_vars

C5_Witness ==
  /\ last.op = "pointLight"
  /\ last.args = Gray \o XYZ
  /\ pointLightCount = 2
  /\ uniforms[Indexed("uPointLightLocation", 1)] = Float3(Num(1), Num(2), Num(3))

\* C6: after every completed light call uMaterialColor is (1,1,1,1), whatever
\* it was before.
C6_MaterialWhite ==
  (last.op \in LightOps /\ ~last.threw) => uniforms[Scalar("uMaterialColor")] = White

C6_Witness ==
  /\ last.op = "directionalLight"
  /\ ~last.threw
  /\ last.matBefore \notin {Unset, White}
  /\ uniforms[Scalar("uMaterialColor")] = White

\* C7: each counter equals the number of completed calls of its type since the
\* reset, and no light call decreases a counter.
C7_CountersCountCompleted ==
  /\ [](\A op \in LightOps : Counters[op] = registered[op])
  /\ [][last'.op \in LightOps => \A op \in LightOps : Counters'[op] >= Counters[op]]_vars

C7_Witness ==
  /\ last.op = "directionalLight"
  /\ last.threw
  /\ directionalLightCount = 1
  /\ registered["pointLight"] = 1

\* The counters, count uniforms and indexed slots of the other two light types
\* are the same after the step.
OthersUnchanged(op) ==
  \A o \in LightOps \ {op} :
    /\ Counters'[o] = Counters[o]
    /\ uniforms'[Scalar(CountUniform(o))] = uniforms[Scalar(CountUniform(o))]
    /\ \A a \in ArraysOf(o) : \A i \in Indices :
         uniforms'[Indexed(a, i)] = uniforms[Indexed(a, i)]

\* C8 (as stated): each light call adds exactly 1 to the counter of its own
\* type and leaves the other types' counters, count uniforms and slots alone.
C8_EveryCallBumpsOwnCounter ==
  [][(Stepped /\ last'.op \in LightOps) =>
       /\ Counters'[last'.op] = Counters[last'.op] + 1
       /\ OthersUnchanged(last'.op)]_vars

\* C8 (amended): a light call that completes adds exactly 1 to the counter of
\* its own type, a light call that throws changes no counter, and either way
\* the other types' counters, count uniforms and slots are left alone.
C8_CompletedCallBumpsOwnCounter ==
  [][(Stepped /\ last'.op \in LightOps) =>
       /\ Counters'[last'.op] = Counters[last'.op] + (IF last'.threw THEN 0 ELSE 1)
       /\ OthersUnchanged(last'.op)]_vars

C8_Witness ==
  /\ last.op = "pointLight"
  /\ ~last.threw
  /\ pointLightCount = 1
  /\ directionalLightCount = 1
  /\ ambientLightCount = 1

\* C9: each type's count uniform, once written since the reset, equals the
\* type's counter, and the indices of the type's slots written since the reset
\* are exactly 0 .. counter-1.
C9_WrittenSlotsMatchCounter ==
  \A op \in LightOps :
    /\ Scalar(CountUniform(op)) \in written =>
         uniforms[Scalar(CountUniform(op))] = Int1(Counters[op])
    /\ \A a \in ArraysOf(op) :
         {i \in Indices : Indexed(a, i) \in written} = 0..(Counters[op] - 1)

IsPrefix(s, t) == Len(s) <= Len(t) /\ SubSeq(t, 1, Len(s)) = s

\* C10: after the reset, re-issuing the previous frame's light calls writes the
\* same uniform names with the same values, call by call, and the first light
\* of each type goes to index 0 again.
C10_ReplayWritesSame ==
  phase = "replay" =>
    /\ IsPrefix(frameWrites, prevWrites)
    /\ frameCalls = prevCalls => frameWrites = prevWrites
    /\ \A k \in 1..Len(frameCalls) :
         (\A j \in 1..(k - 1) : frameCalls[j].op # frameCalls[k].op) =>
           frameWrites[k][1].loc = Indexed(ColorArray(frameCalls[k].op), 0)

C10_Witness ==
  /\ phase = "replay"
  /\ Len(prevCalls) = 2
  /\ frameCalls = prevCalls
  /\ frameCalls[1].op = frameCalls[2].op
  /\ frameWrites[2][1].loc[2] = 1

\* The indexed uniform names written by the GL calls of a trace.
IndexedWrites(trace) == {loc \in WrittenNames(trace) : Len(loc) = 2}

\* C13: a completed directionalLight (pointLight) call writes its color slot
\* and its geometry slot at one index, the type's counter before the call,
\* which is the number of lights of the type completed before it since the
\* reset; no light call writes an indexed slot at any other index.
C13_ColorAndGeometrySameIndex ==
  [][(Stepped /\ last'.op \in LightOps) =>
       LET op == last'.op
           i == Counters[op]
       IN /\ \A loc \in IndexedWrites(glTrace') : loc[2] = i
          /\ (op \in GeometryOps /\ ~last'.threw) =>
               /\ IndexedWrites(glTrace')
                    = {Indexed(ColorArray(op), i), Indexed(GeometryArray(op), i)}
               /\ i = registered[op]]_vars

C13_Witness ==
  /\ last.op = "pointLight"
  /\ ~last.threw
  /\ pointLightCount = 2
  /\ registered["directionalLight"] = 1
  /\ IndexedWrites(glTrace)
       = {Indexed("uPointLightColor", 1), Indexed("uPointLightLocation", 1)}

\* C14: in each light call the first GL call makes the shared lighting program
\* (the same for the three light types) the active program, every uniform
\* write comes after it, and that program is the active one after the call.
C14_ProgramActiveFirst ==
  [][(Stepped /\ last'.op \in LightOps) =>
       /\ Len(glTrace') >= 2
       /\ glTrace'[1] = [call |-> "useProgram", program |-> LightShader]
       /\ \A k \in 2..Len(glTrace') : glTrace'[k].call = "uniform"
       /\ currentProgram' = LightShader]_vars

C14_Witness ==
  /\ last.op = "pointLight"
  /\ ~last.threw
  /\ registered["ambientLight"] = 1
  /\ registered["directionalLight"] = 1
  /\ glTrace[1] = [call |-> "useProgram", program |-> LightShader]
  /\ Len(UniformWrites(glTrace)) = 4
  /\ currentProgram = LightShader

\* C15: a directionalLight or pointLight call whose last argument is null or
\* undefined throws and leaves the type's counter and count uniform as they
\* were, and the next call of the type that completes writes its slots at the
\* index the failed call targeted.
C15_FailedCallKeepsIndex ==
  [][(Stepped /\ last'.op \in GeometryOps) =>
       LET op == last'.op
       IN /\ PropThrows(LastArg(last'.args)) =>
               /\ last'.threw
               /\ Counters'[op] = Counters[op]
               /\ uniforms'[Scalar(CountUniform(op))] = uniforms[Scalar(CountUniform(op))]
          /\ (~last'.threw /\ failedAt[op] # -1) =>
               IndexedWrites(glTrace')
                 = {Indexed(ColorArray(op), failedAt[op]),
                    Indexed(GeometryArray(op), failedAt[op])}]_vars

C15_Witness ==
  /\ last.op = "directionalLight"
  /\ ~last.threw
  /\ last.afterFail = 1
  /\ directionalLightCount = 2
  /\ Indexed("uLightingDirection", 1) \in IndexedWrites(glTrace)

\* The invocations of the callback of the i-th loadImage call.
InvocationsOf(i) == {j \in 1..Len(invoked) : invoked[j].load = i}

\* C11: a loadImage callback is invoked only once its image has loaded, and
\* then with the p5.Image its own loadImage call returned, already of the size
\* of the loaded image and holding its pixels, in whatever order the loads
\* complete; a call without a callback invokes nothing.
C11_CallbackGetsOwnImage ==
  /\ \A j \in 1..Len(invoked) :
       LET e == invoked[j]
           l == loads[e.load]
           f == ImageFile(l.path)
       IN /\ l.img.status = "loaded"
          /\ e.fn = l.callback
          /\ e.arg.id = l.returned
          /\ e.arg.width = f.width /\ e.arg.height = f.height
          /\ e.arg.canvas = [width |-> f.width, height |-> f.height, pixel |-> f.pixel]
  /\ \A i \in 1..Len(loads) :
       Cardinality(InvocationsOf(i))
         = IF loads[i].img.status = "loaded" /\ loads[i].callback.t = "function"
           THEN 1 ELSE 0

C11_Witness ==
  /\ Len(invoked) = 2
  /\ invoked[1].load = 2
  /\ invoked[2].load = 1
  /\ invoked[1].arg.id = loads[2].returned
  /\ invoked[2].arg.id = loads[1].returned
  /\ loads[1].path # loads[2].path

\* C12: image() draws the image's own canvas when the most recent of the tint
\* and noTint calls before it is noTint, and the canvas tinted with c when it
\* is tint(c), whatever calls came earlier.
C12_LatestTintDecidesDraw ==
  lastDraw.drawn =>
    /\ lastDraw.tintCall.op = "noTint" =>
         /\ ~lastDraw.tinted
         /\ lastDraw.source = lastDraw.img.canvas
    /\ lastDraw.tintCall.op = "tint" =>
         /\ lastDraw.tinted
         /\ lastDraw.source
              = getTintedImageCanvas(
                  [_tint |-> getNormalizedColor(lastDraw.tintCall.args),
                   _imageMode |-> CORNER],
                  lastDraw.img)

C12_Witness ==
  /\ lastDraw.drawn
  /\ lastDraw.tintCall.op = "noTint"
  /\ lastDraw.tintCall.prev = "tint"
  /\ lastDraw.source = lastDraw.img.canvas

\* C16: imageMode(m) sets the image mode to m when m is CORNER, CORNERS or
\* CENTER and leaves it as it is for any other m, so the image mode is always
\* its initial value or one of the three.
C16_ImageModeGuard ==
  /\ [][imgLast'.op = "imageMode" =>
          _imageMode' = IF imgLast'.m \in {CORNER, CORNERS, CENTER}
                        THEN imgLast'.m ELSE _imageMode]_vars
  /\ [](_imageMode \in {CORNER, CORNERS, CENTER})

C16_Witness ==
  /\ imgLast.op = "imageMode"
  /\ imgLast.m = "radius"
  /\ _imageMode = CENTER

====
